---------------------------- MODULE Spec2Model ----------------------------
(***************************************************************************)
(* Model of the test-flight-rust reduction engine:                         *)
(*   alpha.rs    Alpha (a letter as a u8 in 1..26), ALPHABET               *)
(*   actions.rs  the six block transforms and Action                       *)
(*   tpa.rs      TpaGroup, marvin_tpa, marvin_tpa_12                       *)
(*                                                                         *)
(* Representation.                                                         *)
(*   String / &str   a sequence of bytes (0..255) holding valid UTF-8, as  *)
(*                   in Rust: len() is the number of bytes, a slice is cut *)
(*                   at byte offsets and panics off a char boundary.  The  *)
(*                   decoder covers one- and two-byte sequences (code      *)
(*                   points below U+0800), which is all the inputs use.    *)
(*   char            a code point (a natural number)                       *)
(*   Alpha           the u8 it wraps                                       *)
(*   [Alpha; 16]     a sequence of Alpha                                   *)
(*   Option<T>       a sequence of length 0 (None) or 1 (Some)             *)
(*   Result<T>       a record [kind, msg, val]: kind "Ok" with the value   *)
(*                   in val, kind "Err" with the anyhow message in msg and *)
(*                   its argument in val, or kind "Panic" (the call        *)
(*                   unwinds instead of returning)                         *)
(***************************************************************************)
EXTENDS Integers, Sequences, FiniteSets, TLC

VARIABLES
    seed,     \* reducer: the string handed to the entry point
    base,     \* reducer: the seed before the caller's edit
    edit,     \* reducer: the caller's edit of the seed
    pc,       \* reducer: "input", "edited" or "done"
    entry,    \* reducer: the entry point that ran
    result,   \* reducer: what the entry point returned
    slices,   \* reducer: the slices handed to TpaGroup::from_str by the call
    text,     \* block machine: the string handed to TpaGroup::from_str
    parsed,   \* block machine: what the last fallible call returned
    group,    \* block machine: the current [Alpha; 16]
    prev,     \* block machine: the block the last operation was applied to
    op,       \* block machine: the last operation applied
    arg,      \* block machine: the Alpha or block argument of the last operation
    steps,    \* block machine: operations applied since from_str
    x, y, z,  \* symbol machine: three symbols built by Alpha::new
    acc,      \* symbol machine: the symbol computed last
    sop       \* symbol machine: the operations applied so far

reducer_vars == <<seed, base, edit, pc, entry, result, slices>>
block_vars == <<text, parsed, group, prev, op, arg, steps>>
symbol_vars == <<x, y, z, acc, sop>>
vars == <<reducer_vars, block_vars, symbol_vars>>

---------------------------------------------------------------------------
(* Integer width, Option and Result.                                       *)

\* u8 arithmetic of a release build: the value modulo 2^8.
Wrap8(n) == n % 256

\* Whether n is representable as a u8 (a debug build panics when it is not).
Fits8(n) == n \in 0..255

None == << >>
Some(v) == << v >>
IsSome(o) == Len(o) = 1

Ok(v) == [kind |-> "Ok", msg |-> "", val |-> v]
Err(m, a) == [kind |-> "Err", msg |-> m, val |-> a]
Panic(m) == [kind |-> "Panic", msg |-> m, val |-> << >>]
NoResult == [kind |-> "None", msg |-> "", val |-> << >>]

---------------------------------------------------------------------------
(* Strings: UTF-8 bytes and chars.                                         *)

\* str::chars(): decode the bytes to code points.
RECURSIVE chars(_)
chars(s) ==
    IF s = << >> THEN << >>
    ELSE IF s[1] < 128 THEN << s[1] >> \o chars(Tail(s))
    ELSE << (s[1] - 192) * 64 + (s[2] - 128) >> \o chars(SubSeq(s, 3, Len(s)))

\* char -> its UTF-8 bytes (String::push / collect::<String>()).
encode_utf8(c) ==
    IF c < 128 THEN << c >> ELSE << 192 + (c \div 64), 128 + (c % 64) >>

RECURSIVE collect_string(_)
collect_string(cs) ==
    IF cs = << >> THEN << >> ELSE encode_utf8(Head(cs)) \o collect_string(Tail(cs))

\* str::is_char_boundary(i): 0, len, or a byte that is not a continuation byte.
is_char_boundary(s, i) ==
    \/ i = 0
    \/ i = Len(s)
    \/ (i < Len(s) /\ ~(s[i + 1] \in 128..191))

\* char::is_whitespace (White_Space code points below U+0800).
is_whitespace(c) == c \in (9..13) \cup {32, 133, 160}

\* char::is_ascii_uppercase
is_ascii_uppercase(c) == c \in 65..90

\* seed.replace(char::is_whitespace, ""): drop every whitespace char.
strip_whitespace(s) ==
    collect_string(SelectSeq(chars(s), LAMBDA c : ~is_whitespace(c)))

---------------------------------------------------------------------------
(* alpha.rs                                                                *)

\* Mutant of Alpha_new: any ASCII letter is taken (is_ascii_alphabetic).
Alpha_new_anycase(c) ==
    IF c \in (65..90) \cup (97..122)
    THEN Some(Wrap8(Wrap8(Wrap8(c) - 65) + 1))
    ELSE None

\* Alpha::new(c): Some(c as u8 - 'A' as u8 + 1) for an ASCII uppercase letter.
Alpha_new(c) ==
    IF is_ascii_uppercase(c)
    THEN Some(Wrap8(Wrap8(Wrap8(c) - 65) + 1))
    ELSE None

\* Alpha::is_vowel: A, E, I, O, U and Y.
is_vowel(a) == a \in {1, 5, 9, 15, 21, 25}

\* Mutant of rot13: the shift to and from the 0-based value is missing.
rot13_unshifted(a) == Wrap8(Wrap8(a + 13) % 26)

\* Mutant of rot13: the rotation is by 12 places.
rot13_by_12(a) == Wrap8((Wrap8(Wrap8(a - 1) + 12) % 26) + 1)

\* Alpha::rot13: (self.0 - 1 + 13) % 26 + 1 in u8.
rot13(a) == Wrap8((Wrap8(Wrap8(a - 1) + 13) % 26) + 1)

\* Alpha::as_char: (self.0 - 1 + 'A' as u8) as char.
as_char(a) == Wrap8(Wrap8(a - 1) + 65)

\* Mutant of Alpha_add: the "- 1" is missing.
Alpha_add_no_dec(a, b) == Wrap8((Wrap8(a + b) % 26) + 1)

\* Mutant of Alpha_add: the zero-indexed positions are added modulo 26.
Alpha_add_zero_indexed(a, b) == Wrap8((Wrap8(Wrap8(a - 1) + Wrap8(b - 1)) % 26) + 1)

\* impl Add<&Alpha> for &Alpha: (self.0 + rhs.0 - 1) % 26 + 1 in u8.
Alpha_add(a, b) == Wrap8((Wrap8(Wrap8(a + b) - 1) % 26) + 1)

\* ALPHABET: Alpha::new of 'A'..='Z', unwrapped.
ALPHABET == [i \in 1..26 |-> Alpha_new(64 + i)[1]]

---------------------------------------------------------------------------
(* actions.rs                                                              *)

Actions == {"A", "B", "C", "D", "E", "F"}

\* reverse: the array reversed.
reverse(input) == [i \in 1..Len(input) |-> input[Len(input) + 1 - i]]

\* consonant_rot13: rot13 on every symbol that is not a vowel.
consonant_rot13(input) ==
    [i \in 1..Len(input) |-> IF ~is_vowel(input[i]) THEN rot13(input[i]) ELSE input[i]]

\* Mutant of swap_vowels_step: the vowel is swapped with the symbol after it.
swap_vowels_step_forward(transformed, i) ==
    IF is_vowel(transformed[i + 1]) /\ i + 2 <= Len(transformed)
    THEN [k \in 1..Len(transformed) |->
            IF k = i + 1 THEN transformed[i + 2]
            ELSE IF k = i + 2 THEN transformed[i + 1]
            ELSE transformed[k]]
    ELSE transformed

\* The body of swap_vowels' loop for Rust index i (TLA+ index i + 1), and the
\* loop "for i in 1..16" over the one working array.
swap_vowels_step(transformed, i) ==
    IF is_vowel(transformed[i + 1])
    THEN [k \in 1..Len(transformed) |->
            IF k = i THEN transformed[i + 1]
            ELSE IF k = i + 1 THEN transformed[i]
            ELSE transformed[k]]
    ELSE transformed

RECURSIVE swap_vowels_loop(_, _)
swap_vowels_loop(transformed, i) ==
    IF i >= 16 THEN transformed
    ELSE swap_vowels_loop(swap_vowels_step(transformed, i), i + 1)

swap_vowels(input) == swap_vowels_loop(input, 1)

\* The working array of swap_vowels when its loop reaches Rust index i: the
\* clone of the input after the iterations 1..i-1.
RECURSIVE swap_vowels_at(_, _)
swap_vowels_at(input, i) ==
    IF i <= 1 THEN input
    ELSE swap_vowels_step(swap_vowels_at(input, i - 1), i - 1)

\* combine_positions: for i in (0..16).step_by(2), both cells of the pair get a + b.
combine_positions(input) ==
    [i \in 1..Len(input) |->
        IF i % 2 = 1 THEN Alpha_add(input[i], input[i + 1])
                     ELSE Alpha_add(input[i - 1], input[i])]

\* swap_back_front: input[8..] followed by input[..8].
swap_back_front(input) == SubSeq(input, 9, Len(input)) \o SubSeq(input, 1, 8)

\* even_rot13: rot13 where (index + 1) % 2 == 0 for the 0-based index.
even_rot13(input) ==
    [i \in 1..Len(input) |-> IF ((i - 1) + 1) % 2 = 0 THEN rot13(input[i]) ELSE input[i]]

\* Mutant of Action_new: the last arm is missing, so 6 falls to None.
Action_new_short(action) ==
    CASE action = 1 -> Some("A")
      [] action = 2 -> Some("B")
      [] action = 3 -> Some("C")
      [] action = 4 -> Some("D")
      [] action = 5 -> Some("E")
      [] OTHER -> None

\* Action::new: 1..6 -> A..F, anything else None.
Action_new(action) ==
    CASE action = 1 -> Some("A")
      [] action = 2 -> Some("B")
      [] action = 3 -> Some("C")
      [] action = 4 -> Some("D")
      [] action = 5 -> Some("E")
      [] action = 6 -> Some("F")
      [] OTHER -> None

\* Mutant of Action_transform: Action C combines after the vowel swap.
Action_transform_c_order(self, input) ==
    CASE self = "A" -> swap_vowels(consonant_rot13(reverse(input)))
      [] self = "B" -> swap_back_front(even_rot13(combine_positions(input)))
      [] self = "C" -> combine_positions(swap_vowels(consonant_rot13(input)))
      [] self = "D" -> combine_positions(reverse(swap_back_front(input)))
      [] self = "E" -> reverse(even_rot13(swap_vowels(input)))
      [] self = "F" -> consonant_rot13(swap_vowels(even_rot13(input)))

\* Action::transform
Action_transform(self, input) ==
    CASE self = "A" -> swap_vowels(consonant_rot13(reverse(input)))
      [] self = "B" -> swap_back_front(even_rot13(combine_positions(input)))
      [] self = "C" -> swap_vowels(combine_positions(consonant_rot13(input)))
      [] self = "D" -> combine_positions(reverse(swap_back_front(input)))
      [] self = "E" -> reverse(even_rot13(swap_vowels(input)))
      [] self = "F" -> consonant_rot13(swap_vowels(even_rot13(input)))

---------------------------------------------------------------------------
(* tpa.rs                                                                  *)

\* s.chars().map(|c| Alpha::new(c).ok_or_else(..)).collect::<Result<Vec<_>>>():
\* the symbols, or the error of the first char that is not an uppercase letter.
RECURSIVE collect_alphas(_, _, _)
collect_alphas(cs, m, out) ==
    IF cs = << >> THEN Ok(out)
    ELSE IF IsSome(Alpha_new(Head(cs)))
         THEN collect_alphas(Tail(cs), m, Append(out, Alpha_new(Head(cs))[1]))
         ELSE Err(m, << Head(cs) >>)

\* TpaGroup::transform: Action::new(action_group) or "Not a valid action".
TpaGroup_transform(self, action_group) ==
    IF IsSome(Action_new(action_group))
    THEN Ok(Action_transform(Action_new(action_group)[1], self))
    ELSE Err("Not a valid action", << as_char(action_group) >>)

\* Mutant of TpaGroup_from_str: the padding goes on in the alphabet from where
\* the text's length leaves off instead of starting at A.
TpaGroup_from_str_pad_on(s) ==
    IF Len(s) > 16 THEN Err("Invalid length", << Len(s) >>)
    ELSE LET r == collect_alphas(chars(s), "Invalid uppercase letter", << >>)
         IN  IF r.kind # "Ok" THEN r
             ELSE LET v == r.val \o SubSeq(ALPHABET, Len(s) + 1, 16)
                  IN  IF Len(v) = 16 THEN Ok(v)
                      ELSE Panic("called Result::unwrap on an Err value")

\* TpaGroup::from_str: the length check, the symbols, the padding from ALPHABET,
\* try_into::<[Alpha; 16]>().unwrap().
TpaGroup_from_str(s) ==
    IF Len(s) > 16 THEN Err("Invalid length", << Len(s) >>)
    ELSE LET r == collect_alphas(chars(s), "Invalid uppercase letter", << >>)
         IN  IF r.kind # "Ok" THEN r
             ELSE LET v == r.val \o SubSeq(ALPHABET, 1, 16 - Len(s))
                  IN  IF Len(v) = 16 THEN Ok(v)
                      ELSE Panic("called Result::unwrap on an Err value")

\* TpaGroup::to_string
TpaGroup_to_string(self) == collect_string([i \in 1..Len(self) |-> as_char(self[i])])

\* Mutant of TpaGroup_add: the right operand is zipped one position late.
TpaGroup_add_skewed(self, rhs) == [i \in 1..16 |-> Alpha_add(self[i], rhs[(i % 16) + 1])]

\* impl Add<&TpaGroup> for &TpaGroup: zip, a + b, into [Alpha; 16].
TpaGroup_add(self, rhs) == [i \in 1..16 |-> Alpha_add(self[i], rhs[i])]

\* Iterator::reduce(|a, b| &a + &b): None for no item, else the left fold.
RECURSIVE fold_groups(_, _)
fold_groups(a, rest) ==
    IF rest = << >> THEN a ELSE fold_groups(TpaGroup_add(a, Head(rest)), Tail(rest))

reduce_groups(gs) == IF gs = << >> THEN None ELSE Some(fold_groups(Head(gs), Tail(gs)))

\* The number of items of (0..n).step_by(16).zip(preamble): the shorter of the two.
Min(a, b) == IF a < b THEN a ELSE b

\* Mutant of pair_count: only whole chunks of 16 are counted.
pair_count_whole(n, preamble) == Min(n \div 16, Len(preamble))

\* (0..n).step_by(16): the 0-based starts 0, 16, 32, .. below n.
step_by_16(n) == [i \in 1..((n + 15) \div 16) |-> 16 * (i - 1)]

pair_count(n, preamble) == Min(Len(step_by_16(n)), Len(preamble))

\* Mutant of slice_end: the slice ends one byte later.
slice_end_17(body, start) == Min(start + 17, Len(body))

\* let end = (start + 16).min(seed.len())
slice_end(body, start) == Min(start + 16, Len(body))

\* The closure of marvin_tpa_12 for the pair (start, action_group).
tpa_pair(body, start, action_group) ==
    LET end == slice_end(body, start)
    IN  IF ~is_char_boundary(body, start) \/ ~is_char_boundary(body, end)
        THEN Panic("byte index is not a char boundary")
        ELSE LET g == TpaGroup_from_str(SubSeq(body, start + 1, end))
             IN  IF g.kind # "Ok" THEN g ELSE TpaGroup_transform(g.val, action_group)

\* .map(closure).collect::<Result<Vec<_>>>(): pairs in order, stopping at the
\* first one that fails.
RECURSIVE collect_pairs(_, _, _, _)
collect_pairs(body, preamble, i, out) ==
    IF i >= pair_count(Len(body), preamble) THEN Ok(out)
    ELSE LET r == tpa_pair(body, step_by_16(Len(body))[i + 1], preamble[i + 1])
         IN  IF r.kind # "Ok" THEN r
             ELSE collect_pairs(body, preamble, i + 1, Append(out, r.val))

\* Mutant of preamble_len: one preamble char per 16 chars of the seed.
preamble_len_16(s) == (Len(s) + 15) \div 16

\* let preamble_len = (seed.len() + 16) / 17
preamble_len(s) == (Len(s) + 16) \div 17

marvin_tpa_12(seed_in) ==
    LET s == strip_whitespace(seed_in)
    IN  IF ~is_char_boundary(s, preamble_len(s))
        THEN Panic("byte index is not a char boundary")
        ELSE LET preamble == collect_alphas(chars(SubSeq(s, 1, preamble_len(s))),
                                            "Not an uppercase letter", << >>)
                 body == SubSeq(s, preamble_len(s) + 1, Len(s))
             IN  IF preamble.kind # "Ok" THEN preamble
                 ELSE LET groups == collect_pairs(body, preamble.val, 0, << >>)
                      IN  IF groups.kind # "Ok" THEN groups
                          ELSE IF ~IsSome(reduce_groups(groups.val))
                               THEN Panic("called Option::unwrap on a None value")
                               ELSE Ok(TpaGroup_to_string(reduce_groups(groups.val)[1]))

\* The slices &seed[start..end] that the closure of marvin_tpa_12 hands to
\* TpaGroup::from_str, in order, up to the pair at which the call stops.
RECURSIVE from_str_slices(_, _, _, _)
from_str_slices(body, preamble, i, out) ==
    IF i >= pair_count(Len(body), preamble) THEN out
    ELSE LET start == step_by_16(Len(body))[i + 1]
             end == slice_end(body, start)
         IN  IF ~is_char_boundary(body, start) \/ ~is_char_boundary(body, end)
             THEN out
             ELSE IF tpa_pair(body, start, preamble[i + 1]).kind # "Ok"
                  THEN Append(out, SubSeq(body, start + 1, end))
                  ELSE from_str_slices(body, preamble, i + 1,
                                       Append(out, SubSeq(body, start + 1, end)))

\* What marvin_tpa_12 hands to TpaGroup::from_str while it runs on seed_in.
marvin_tpa_12_slices(seed_in) ==
    LET s == strip_whitespace(seed_in)
    IN  IF ~is_char_boundary(s, preamble_len(s)) THEN << >>
        ELSE LET preamble == collect_alphas(chars(SubSeq(s, 1, preamble_len(s))),
                                            "Not an uppercase letter", << >>)
                 body == SubSeq(s, preamble_len(s) + 1, Len(s))
             IN  IF preamble.kind # "Ok" THEN << >>
                 ELSE from_str_slices(body, preamble.val, 0, << >>)

\* Mutant of marvin_tpa_seed: one 'A' per whole 16 chars of the seed.
marvin_tpa_seed_whole(seed_in) ==
    LET s == strip_whitespace(seed_in)
        num_groups == Len(s) \div 16
    IN  collect_string([i \in 1..num_groups |-> 65] \o chars(s))

\* The seed marvin_tpa builds for marvin_tpa_12: num_groups times 'A', then
\* the chars of the stripped seed.
marvin_tpa_seed(seed_in) ==
    LET s == strip_whitespace(seed_in)
        num_groups == (Len(s) + 15) \div 16
    IN  collect_string([i \in 1..num_groups |-> 65] \o chars(s))

marvin_tpa(seed_in) == marvin_tpa_12(marvin_tpa_seed(seed_in))

---------------------------------------------------------------------------
(* The callers' inputs.                                                    *)

\* Longest seed, in chars, before the edit.
MaxSeedLen == 36

\* len uppercase letters, the alphabet in order from the letter at offset off,
\* wrapping after Z.
letters(len, off) == [k \in 1..len |-> 65 + ((off + k - 1) % 26)]

\* Where the seeds start in the alphabet: "ABC..", "DEF..", "FGH..".
SeedOffsets == {0, 3, 5}

\* What the edit puts in place of a letter: 'a', '7', 'G', 'Z' and U+00E9.
ReplaceChars == {97, 55, 71, 90, 233}

\* What the edit inserts: a space or a line feed.
InsertChars == {32, 10}

insert_at(s, k, c) == SubSeq(s, 1, k) \o encode_utf8(c) \o SubSeq(s, k + 1, Len(s))
replace_at(s, k, c) == SubSeq(s, 1, k - 1) \o encode_utf8(c) \o SubSeq(s, k + 1, Len(s))

NoEdit == [kind |-> "none", at |-> 0, ch |-> 0]

ReducerIdle ==
    /\ seed = << >> /\ base = << >> /\ edit = NoEdit
    /\ pc = "idle" /\ entry = "" /\ result = NoResult /\ slices = << >>

BlockIdle ==
    /\ text = << >> /\ parsed = NoResult /\ group = << >> /\ prev = << >>
    /\ op = "idle" /\ arg = << >> /\ steps = 0

SymbolIdle == x = 0 /\ y = 0 /\ z = 0 /\ acc = 0 /\ sop = "idle"

---------------------------------------------------------------------------
(* The reducer: a caller builds a seed and calls one of the entry points.  *)

Init ==
    /\ \E len \in 0..MaxSeedLen, off \in SeedOffsets : seed = letters(len, off)
    /\ base = seed
    /\ edit = NoEdit
    /\ pc = "input"
    /\ entry = ""
    /\ result = NoResult
    /\ slices = << >>
    /\ BlockIdle
    /\ SymbolIdle

\* The caller replaces one letter of the seed.
EditReplace ==
    /\ pc = "input"
    /\ \E k \in 1..Len(seed), c \in ReplaceChars :
          /\ seed' = replace_at(seed, k, c)
          /\ edit' = [kind |-> "replace", at |-> k, ch |-> c]
    /\ pc' = "edited"
    /\ UNCHANGED <<base, entry, result, slices, block_vars, symbol_vars>>

\* The caller inserts one whitespace char into the seed.
EditInsert ==
    /\ pc = "input"
    /\ \E k \in 0..Len(seed), c \in InsertChars :
          /\ seed' = insert_at(seed, k, c)
          /\ edit' = [kind |-> "insert", at |-> k, ch |-> c]
    /\ pc' = "edited"
    /\ UNCHANGED <<base, entry, result, slices, block_vars, symbol_vars>>

Call_marvin_tpa_12 ==
    /\ pc \in {"input", "edited"}
    /\ result' = marvin_tpa_12(seed)
    /\ slices' = marvin_tpa_12_slices(seed)
    /\ entry' = "marvin_tpa_12"
    /\ pc' = "done"
    /\ UNCHANGED <<seed, base, edit, block_vars, symbol_vars>>

Call_marvin_tpa ==
    /\ pc \in {"input", "edited"}
    /\ result' = marvin_tpa(seed)
    /\ slices' = marvin_tpa_12_slices(marvin_tpa_seed(seed))
    /\ entry' = "marvin_tpa"
    /\ pc' = "done"
    /\ UNCHANGED <<seed, base, edit, block_vars, symbol_vars>>

Next == EditReplace \/ EditInsert \/ Call_marvin_tpa_12 \/ Call_marvin_tpa

Spec == Init /\ [][Next]_vars

---------------------------------------------------------------------------
(* The block machine: a caller parses a text into a TpaGroup and applies   *)
(* block operations to it.                                                 *)

\* Longest text, in chars, handed to from_str.
MaxTextLen == 18

\* Block operations applied to one parsed block.
MaxSteps == 2

\* Where the texts start in the alphabet: "ABC..", "QRS..".
TextOffsets == {0, 16}

\* What the edit puts in place of a letter of the text: 'a' and U+00E9.
TextReplaceChars == {97, 233}

\* The symbols handed to TpaGroup::transform: A..G and Z.
TransformArgs == {ALPHABET[i] : i \in (1..7) \cup {26}}

\* The blocks handed to the block addition: "ABCDEFGHIJKLMNOP" and the padded
\* "QRSTUVWXYZ".
AddOperands == {TpaGroup_from_str(letters(16, 0)).val, TpaGroup_from_str(letters(10, 16)).val}

InitGroup ==
    /\ \E len \in 0..MaxTextLen, off \in TextOffsets : text = letters(len, off)
    /\ parsed = NoResult
    /\ group = << >>
    /\ prev = << >>
    /\ op = "text"
    /\ arg = << >>
    /\ steps = 0
    /\ ReducerIdle
    /\ SymbolIdle

\* The caller replaces one letter of the text.
EditText ==
    /\ op = "text"
    /\ \E k \in 1..Len(text), c \in TextReplaceChars : text' = replace_at(text, k, c)
    /\ op' = "edited"
    /\ UNCHANGED <<parsed, group, prev, arg, steps, reducer_vars, symbol_vars>>

Call_from_str ==
    /\ op \in {"text", "edited"}
    /\ parsed' = TpaGroup_from_str(text)
    /\ group' = IF parsed'.kind = "Ok" THEN parsed'.val ELSE << >>
    /\ op' = "from_str"
    /\ UNCHANGED <<text, prev, arg, steps, reducer_vars, symbol_vars>>

\* A block operation can run: a block was parsed and the step bound is not reached.
HasGroup == op \notin {"text", "edited"} /\ group # << >> /\ steps < MaxSteps

Apply(name, out) ==
    /\ HasGroup
    /\ group' = out
    /\ prev' = group
    /\ op' = name
    /\ arg' = << >>
    /\ steps' = steps + 1
    /\ UNCHANGED <<text, parsed, reducer_vars, symbol_vars>>

Call_reverse == Apply("reverse", reverse(group))

Call_consonant_rot13 == Apply("consonant_rot13", consonant_rot13(group))

Call_swap_vowels == Apply("swap_vowels", swap_vowels(group))

Call_combine_positions == Apply("combine_positions", combine_positions(group))

Call_swap_back_front == Apply("swap_back_front", swap_back_front(group))

Call_even_rot13 == Apply("even_rot13", even_rot13(group))

Call_transform ==
    /\ HasGroup
    /\ \E a \in TransformArgs :
          /\ parsed' = TpaGroup_transform(group, a)
          /\ arg' = << a >>
    /\ group' = IF parsed'.kind = "Ok" THEN parsed'.val ELSE group
    /\ prev' = group
    /\ op' = "transform"
    /\ steps' = steps + 1
    /\ UNCHANGED <<text, reducer_vars, symbol_vars>>

Call_add ==
    /\ HasGroup
    /\ \E rhs \in AddOperands :
          /\ group' = TpaGroup_add(group, rhs)
          /\ arg' = rhs
    /\ prev' = group
    /\ op' = "add"
    /\ steps' = steps + 1
    /\ UNCHANGED <<text, parsed, reducer_vars, symbol_vars>>

NextGroup ==
    \/ EditText \/ Call_from_str
    \/ Call_reverse \/ Call_consonant_rot13 \/ Call_swap_vowels
    \/ Call_combine_positions \/ Call_swap_back_front \/ Call_even_rot13
    \/ Call_transform \/ Call_add

SpecGroup == InitGroup /\ [][NextGroup]_vars

---------------------------------------------------------------------------
(* The symbol machine: three symbols are built by Alpha::new and combined. *)

InitAlpha ==
    /\ \E cx \in 65..90, cy \in 65..90, cz \in 65..90 :
          /\ x = Alpha_new(cx)[1]
          /\ y = Alpha_new(cy)[1]
          /\ z = Alpha_new(cz)[1]
    /\ acc = x
    /\ sop = "new"
    /\ ReducerIdle
    /\ BlockIdle

\* &x + &y
Call_add_xy ==
    /\ sop = "new"
    /\ acc' = Alpha_add(x, y)
    /\ sop' = "add"
    /\ UNCHANGED <<x, y, z, reducer_vars, block_vars>>

\* &(&x + &y) + &z
Call_add_z ==
    /\ sop = "add"
    /\ acc' = Alpha_add(acc, z)
    /\ sop' = "add_add"
    /\ UNCHANGED <<x, y, z, reducer_vars, block_vars>>

\* x.rot13(), then .rot13() of that
Call_rot13 ==
    /\ sop \in {"new", "rot13"}
    /\ acc' = rot13(acc)
    /\ sop' = IF sop = "new" THEN "rot13" ELSE "rot13_rot13"
    /\ UNCHANGED <<x, y, z, reducer_vars, block_vars>>

NextAlpha == Call_add_xy \/ Call_add_z \/ Call_rot13

SpecAlpha == InitAlpha /\ [][NextAlpha]_vars

---------------------------------------------------------------------------
(* Vocabulary of the claims.                                               *)

UpperCase == << "A", "B", "C", "D", "E", "F", "G", "H", "I", "J", "K", "L", "M",
                "N", "O", "P", "Q", "R", "S", "T", "U", "V", "W", "X", "Y", "Z" >>

\* The value 1..26 of a letter written as a one-letter string.
Val(l) == CHOOSE i \in 1..26 : UpperCase[i] = l

\* A word given letter by letter, as symbols and as ASCII bytes.
Syms(w) == [i \in 1..Len(w) |-> Val(w[i])]
Str(w) == [i \in 1..Len(w) |-> 64 + Val(w[i])]

CeilDiv(a, b) == (a + b - 1) \div b

\* The whitespace-stripped form of an ASCII seed.
Stripped(s) == SelectSeq(s, LAMBDA b : b \notin ((9..13) \cup {32}))

IsAscii(s) == \A k \in 1..Len(s) : s[k] < 128
IsUpper(b) == b \in 65..90
AllUpper(s) == \A k \in 1..Len(s) : IsUpper(s[k])
IsLowerOrDigit(b) == b \in (97..122) \cup (48..57)

\* The preamble and the body of a stripped seed, and the body's chunks 0, 1, ..
PreambleLen(st) == CeilDiv(Len(st), 17)
PreambleOf(st) == SubSeq(st, 1, PreambleLen(st))
BodyOf(st) == SubSeq(st, PreambleLen(st) + 1, Len(st))
ChunkCount(st) == CeilDiv(Len(BodyOf(st)), 16)
Chunk(st, i) ==
    SubSeq(BodyOf(st), 16 * i + 1,
           IF 16 * i + 16 < Len(BodyOf(st)) THEN 16 * i + 16 ELSE Len(BodyOf(st)))

\* The error kinds of the specification, by the messages of the code.
InvalidCharacter(r) ==
    r.kind = "Err" /\ r.msg \in {"Not an uppercase letter", "Invalid uppercase letter"}
InvalidLength(r) == r.kind = "Err" /\ r.msg = "Invalid length"
InvalidAction(r) == r.kind = "Err" /\ r.msg = "Not a valid action"

Done12 == pc = "done" /\ entry = "marvin_tpa_12"
DoneTpa == pc = "done" /\ entry = "marvin_tpa"

---------------------------------------------------------------------------
(* C1                                                                      *)

\* apply(select(preamble[i]), parseBlock(chunk[i])) for chunk i of a stripped seed.
C1_Block(st, i) ==
    Action_transform(Action_new(PreambleOf(st)[i + 1] - 64)[1],
                     TpaGroup_from_str(Chunk(st, i)).val)

\* Position j of the left-to-right Symbol.add fold of blocks 0..i.
RECURSIVE C1_FoldAt(_, _, _)
C1_FoldAt(st, i, j) ==
    IF i = 0 THEN C1_Block(st, 0)[j]
    ELSE Alpha_add(C1_FoldAt(st, i - 1, j), C1_Block(st, i)[j])

C1_Expected(st) == [j \in 1..16 |-> 64 + C1_FoldAt(st, ChunkCount(st) - 1, j)]

C1_Applies(st) ==
    /\ Len(st) >= 2
    /\ AllUpper(st)
    /\ \A k \in 1..PreambleLen(st) : st[k] \in 65..70

\* [C1] For every seed whose whitespace-stripped form is L >= 2 uppercase
\* letters with the first ceil(L/17) of them in A..F, marvin_tpa_12 returns the
\* 16 letters of the left-to-right element-wise add fold of
\* apply(select(preamble[i]), parseBlock(chunk[i])), chunk i being the body slice
\* of up to 16 chars at offset 16*i; "ABCDEFGHIJKLMNOPQRSTUVWXYZ" gives
\* "HTVUNWOZVUNXZAPB"; a whitespace char inserted anywhere leaves the result as
\* it is for the seed without it.
C1_ReduceWithPreamble ==
    Done12 =>
        /\ C1_Applies(Stripped(seed)) => result = Ok(C1_Expected(Stripped(seed)))
        /\ Stripped(seed) = letters(26, 0) =>
               result = Ok(Str(<< "H", "T", "V", "U", "N", "W", "O", "Z",
                                  "V", "U", "N", "X", "Z", "A", "P", "B" >>))
        /\ edit.kind = "insert" => result = marvin_tpa_12(base)

\* The 26-letter alphabet with a whitespace char inserted has been reduced to
\* its fingerprint.
C1_Witness ==
    /\ Done12
    /\ edit.kind = "insert"
    /\ base = letters(26, 0)
    /\ C1_Applies(Stripped(seed))
    /\ ChunkCount(Stripped(seed)) = 2
    /\ result = Ok(Str(<< "H", "T", "V", "U", "N", "W", "O", "Z",
                          "V", "U", "N", "X", "Z", "A", "P", "B" >>))

---------------------------------------------------------------------------
(* C2                                                                      *)

C2_Applies == \E k \in 1..Len(seed) : IsLowerOrDigit(seed[k])

C2_ChunkOf(st, k) == (k - PreambleLen(st) - 1) \div 16

\* marvin_tpa_12 reaches an invalid action before it parses any char that is
\* not an uppercase letter: the preamble is all uppercase, and a preamble symbol
\* outside A..F is paired with a chunk before the first chunk holding such a char.
C2_ActionFirst(st) ==
    /\ AllUpper(PreambleOf(st))
    /\ \E i \in 0..(ChunkCount(st) - 1) :
          /\ PreambleOf(st)[i + 1] \notin 65..70
          /\ \A k \in (PreambleLen(st) + 1)..Len(st) :
                ~IsUpper(st[k]) => i < C2_ChunkOf(st, k)

---------------------------------------------------------------------------
(* C3                                                                      *)

\* [C3] (the claim as written) A seed with zero (chunk, action) pairs, such as
\* the empty string, makes marvin_tpa_12 and marvin_tpa return an error value (an
\* Err for the empty reduction), not abort the call.
C3_EmptyIsErr ==
    (pc = "done" /\ Stripped(seed) = << >>) => result.kind = "Err"

---------------------------------------------------------------------------
(* C4                                                                      *)

\* A letter G..Z: a symbol whose value is outside [1,6].
C4_NotAction(b) == b \in 71..90

\* [C4] (the claim as written) marvin_tpa_12 fails with InvalidAction whenever
\* one of the first ceil(L/17) symbols of the stripped seed has a value outside
\* [1,6].
C4_Original ==
    (Done12 /\ \E k \in 1..PreambleLen(Stripped(seed)) : C4_NotAction(Stripped(seed)[k]))
        => InvalidAction(result)

\* Pair i of the stripped seed is reached with everything before it valid, its
\* chunk parses, and its preamble symbol is outside [1,6].
C4_BadPair(st, i) ==
    /\ AllUpper(PreambleOf(st))
    /\ i < ChunkCount(st)
    /\ C4_NotAction(PreambleOf(st)[i + 1])
    /\ \A j \in 0..i : AllUpper(Chunk(st, j))

\* [C4] (amended) Action::new maps the values 1..6 to A..F and fails for every
\* other value; marvin_tpa_12 fails with InvalidAction whenever a preamble symbol
\* that is paired with a body chunk has a value outside [1,6] and the preamble
\* and the chunks up to that pair's are all uppercase letters.  A preamble symbol
\* with no chunk to pair with (the last one when L mod 17 = 1) is not looked at.
C4_Amended ==
    /\ \A a \in 1..26 :
          Action_new(ALPHABET[a]) = IF a \in 1..6 THEN Some(UpperCase[a]) ELSE None
    /\ Done12 =>
          LET st == Stripped(seed)
          IN  /\ (\E i \in 0..(PreambleLen(st) - 1) : C4_BadPair(st, i))
                    => InvalidAction(result)
              /\ (/\ Len(st) % 17 = 1 /\ Len(st) > 1
                  /\ AllUpper(st)
                  /\ \A k \in 1..(PreambleLen(st) - 1) : st[k] \in 65..70)
                    => result.kind = "Ok"

\* The second preamble symbol of a two-chunk seed was replaced by Z and the call
\* failed on it.
C4_Witness ==
    /\ Done12
    /\ edit = [kind |-> "replace", at |-> 2, ch |-> 90]
    /\ C4_BadPair(Stripped(seed), 1)
    /\ InvalidAction(result)

---------------------------------------------------------------------------
(* C5                                                                      *)

\* What the claim says parseBlock returns for a text whose length is n: the
\* length check first, then the chars, then the padding from A.
C5_ParseBlock(t, n) ==
    IF n > 16 THEN "InvalidLength"
    ELSE IF \E k \in 1..Len(chars(t)) : ~IsUpper(chars(t)[k]) THEN "InvalidCharacter"
    ELSE "Block"

C5_Agrees(t, n, r) ==
    CASE C5_ParseBlock(t, n) = "InvalidLength" -> InvalidLength(r)
      [] C5_ParseBlock(t, n) = "InvalidCharacter" -> InvalidCharacter(r)
      [] OTHER ->
           /\ r.kind = "Ok"
           /\ Len(r.val) = 16
           /\ \A i \in 1..16 :
                 r.val[i] = IF i <= Len(t) THEN t[i] - 64 ELSE Val(UpperCase[i - Len(t)])

\* [C5] (the claim as written) parseBlock(text) fails with InvalidLength when
\* the text is longer than 16 characters, otherwise with InvalidCharacter if a
\* character is not A-Z, and otherwise returns the 16 symbols of the text
\* followed by the first (16 - length) symbols of the alphabet from A.
C5_Original ==
    op = "from_str" => C5_Agrees(text, Len(chars(text)), parsed)

\* [C5] (amended) parseBlock(text) fails with InvalidLength when the text is
\* longer than 16 bytes of UTF-8 (16 characters for ASCII text), checked before
\* any character is parsed, otherwise with InvalidCharacter if a character is not
\* A-Z, and otherwise returns exactly 16 symbols: those of the text followed by
\* the first (16 - length) symbols of the alphabet from A ("QRSTUVWXYZ" parses
\* as "QRSTUVWXYZABCDEF").
C5_Amended ==
    op = "from_str" =>
        /\ C5_Agrees(text, Len(text), parsed)
        /\ text = Str(<< "Q", "R", "S", "T", "U", "V", "W", "X", "Y", "Z" >>) =>
               group = Syms(<< "Q", "R", "S", "T", "U", "V", "W", "X", "Y", "Z",
                               "A", "B", "C", "D", "E", "F" >>)

\* "QRSTUVWXYZ" has been parsed and padded with ABCDEF.
C5_Witness ==
    /\ op = "from_str"
    /\ text = Str(<< "Q", "R", "S", "T", "U", "V", "W", "X", "Y", "Z" >>)
    /\ parsed.kind = "Ok"
    /\ SubSeq(group, 11, 16) = Syms(<< "A", "B", "C", "D", "E", "F" >>)

---------------------------------------------------------------------------
(* C6                                                                      *)

\* The Transform Library as the specification defines it, on symbol values.
Lib_rotate13(v) == ((v - 1 + 13) % 26) + 1
Lib_add(v, w) == ((v + w - 1) % 26) + 1
Lib_isVowel(v) == v \in {1, 5, 9, 15, 21, 25}
Lib_reverse(b) == [i \in 1..16 |-> b[17 - i]]
Lib_consonantShift(b) == [i \in 1..16 |-> IF Lib_isVowel(b[i]) THEN b[i] ELSE Lib_rotate13(b[i])]
\* The working array after the pass has handled the 0-based indices 1..n.
RECURSIVE Lib_swapVowelsUpTo(_, _)
Lib_swapVowelsUpTo(b, n) ==
    IF n = 0 THEN b
    ELSE LET w == Lib_swapVowelsUpTo(b, n - 1)
         IN  IF Lib_isVowel(w[n + 1])
             THEN [i \in 1..16 |-> IF i = n THEN w[n + 1] ELSE IF i = n + 1 THEN w[n] ELSE w[i]]
             ELSE w
Lib_swapVowels(b) == Lib_swapVowelsUpTo(b, 15)
Lib_combinePositions(b) ==
    [i \in 1..16 |-> Lib_add(b[2 * ((i + 1) \div 2) - 1], b[2 * ((i + 1) \div 2)])]
Lib_rotateHalves(b) == [i \in 1..16 |-> b[((i + 7) % 16) + 1]]
Lib_positionalShift(b) == [i \in 1..16 |-> IF i % 2 = 0 THEN Lib_rotate13(b[i]) ELSE b[i]]

\* The six Actions as the specification composes them.
C6_Action(a, b) ==
    CASE a = 1 -> Lib_swapVowels(Lib_consonantShift(Lib_reverse(b)))
      [] a = 2 -> Lib_rotateHalves(Lib_positionalShift(Lib_combinePositions(b)))
      [] a = 3 -> Lib_swapVowels(Lib_combinePositions(Lib_consonantShift(b)))
      [] a = 4 -> Lib_combinePositions(Lib_reverse(Lib_rotateHalves(b)))
      [] a = 5 -> Lib_reverse(Lib_positionalShift(Lib_swapVowels(b)))
      [] a = 6 -> Lib_consonantShift(Lib_swapVowels(Lib_positionalShift(b)))

AtoP == Syms(<< "A", "B", "C", "D", "E", "F", "G", "H", "I", "J", "K", "L", "M", "N", "O", "P" >>)

\* The golden values of the six Actions on "ABCDEFGHIJKLMNOP".
C6_Golden ==
    << Syms(<< "O", "A", "C", "Y", "Z", "X", "I", "U", "W", "T", "E", "S", "Q", "O", "A", "P" >>),
       Syms(<< "S", "F", "W", "J", "A", "N", "E", "R", "C", "P", "G", "T", "K", "X", "O", "B" >>),
       Syms(<< "P", "P", "G", "G", "X", "O", "O", "X", "F", "F", "W", "A", "A", "W", "R", "R" >>),
       Syms(<< "O", "O", "K", "K", "G", "G", "C", "C", "E", "E", "A", "A", "W", "W", "S", "S" >>),
       Syms(<< "C", "N", "B", "M", "Y", "K", "W", "H", "V", "G", "S", "D", "R", "C", "O", "A" >>),
       Syms(<< "O", "A", "P", "E", "D", "F", "U", "I", "T", "J", "Y", "X", "A", "O", "Z", "P" >>) >>

C6_Transformed == op = "transform" /\ arg[1] \in 1..6

\* [C6] For every block b an Action was applied to, the result is the Action's
\* composition of the Transform Library's primitives (A = swapVowels .
\* consonantShift . reverse, ..., F = consonantShift . swapVowels .
\* positionalShift), and for b = "ABCDEFGHIJKLMNOP" it is the golden value of
\* that Action.
C6_Actions ==
    C6_Transformed =>
        /\ parsed = Ok(C6_Action(arg[1], prev))
        /\ group = C6_Action(arg[1], prev)
        /\ prev = AtoP => group = C6_Golden[arg[1]]

\* Action C has been applied to "ABCDEFGHIJKLMNOP".
C6_Witness ==
    /\ C6_Transformed
    /\ arg[1] = 3
    /\ prev = AtoP
    /\ group = C6_Golden[3]

---------------------------------------------------------------------------
(* C7                                                                      *)

\* [C7] Symbol addition is commutative and associative on [1,26] and a cyclic
\* group of order 26 with identity Z (26): s + Z = Z + s = s and nothing else is
\* an identity, every symbol has an inverse, and adding A steps through the 26
\* symbols in a single cycle (A generates the group).
C7_Group ==
    /\ sop = "add" =>
          /\ acc \in 1..26
          /\ acc = Alpha_add(y, x)
          /\ y = 26 => acc = x
          /\ x = 26 => acc = y
          /\ acc = x => y = 26
          /\ y = 1 => acc = (x % 26) + 1
          /\ \E inv \in 1..26 : Alpha_add(x, inv) = 26 /\ Alpha_add(inv, x) = 26
    /\ sop = "add_add" => acc = Alpha_add(x, Alpha_add(y, z))

\* (M + N) + Z has been computed, and Z was added to a symbol.
C7_Witness == sop = "add_add" /\ x = 13 /\ y = 14 /\ z = 26 /\ acc = 1

---------------------------------------------------------------------------
(* C8                                                                      *)

\* [C8] (the claim as written) add(a, b).value - 1 = (a0 + b0) mod 26 for the
\* zero-indexed positions a0 = a.value - 1 and b0 = b.value - 1.
C8_Original == sop = "add" => acc - 1 = ((x - 1) + (y - 1)) % 26

\* [C8] (amended) Symbol.add is addition of the 1-indexed values modulo 26,
\* with 26 (Z) standing for the residue 0: add(a, b).value is the member of
\* [1,26] congruent to a.value + b.value, so in zero-indexed positions
\* add(a, b).value - 1 = (a0 + b0 + 1) mod 26.
C8_Amended ==
    sop = "add" =>
        /\ acc \in 1..26
        /\ acc % 26 = (x + y) % 26
        /\ acc - 1 = ((x - 1) + (y - 1) + 1) % 26

\* A + B has been computed and is C (zero-indexed 0 + 1 gives 2, not 1).
C8_Witness == sop = "add" /\ x = 1 /\ y = 2 /\ acc = 3

---------------------------------------------------------------------------
(* C9                                                                      *)

\* The permutations of 1..n.
Perms(n) == {f \in [1..n -> 1..n] : \A i, j \in 1..n : f[i] = f[j] => i = j}

\* The transformed blocks of a valid stripped seed, in the order of its chunks.
C9_Blocks(st) == [i \in 1..ChunkCount(st) |-> C1_Block(st, i - 1)]

\* The stripped seed with its (preamble symbol, chunk) pairs reordered by f.
RECURSIVE C9_Chunks(_, _, _)
C9_Chunks(st, f, i) ==
    IF i > ChunkCount(st) THEN << >>
    ELSE Chunk(st, f[i] - 1) \o C9_Chunks(st, f, i + 1)

C9_Reordered(st, f) ==
    [i \in 1..PreambleLen(st) |-> PreambleOf(st)[f[i]]] \o C9_Chunks(st, f, 1)

\* All chunks are 16 chars long (and so there are as many as preamble symbols).
C9_FullChunks(st) == Len(st) % 17 = 0 /\ Len(st) > 0

\* [C9] The fold is commutative: for a seed that reduces, folding its
\* transformed blocks in any order gives the block the result renders, and when
\* all chunks are 16 chars long, the seed with its (preamble symbol, chunk) pairs
\* reordered reduces to the same fingerprint.
C9_FoldCommutes ==
    (Done12 /\ C1_Applies(Stripped(seed))) =>
        LET st == Stripped(seed)
            blocks == C9_Blocks(st)
        IN  /\ result.kind = "Ok"
            /\ \A f \in Perms(Len(blocks)) :
                  /\ reduce_groups([i \in 1..Len(blocks) |-> blocks[f[i]]])
                        = reduce_groups(blocks)
                  /\ result.val
                        = TpaGroup_to_string(
                              reduce_groups([i \in 1..Len(blocks) |-> blocks[f[i]]])[1])
                  /\ C9_FullChunks(st) => marvin_tpa_12(C9_Reordered(st, f)) = result

\* A 34-letter seed of two different full chunks has been reduced; its pairs can
\* be swapped.
C9_Witness ==
    /\ Done12
    /\ C1_Applies(Stripped(seed))
    /\ Len(Stripped(seed)) = 34
    /\ C9_Blocks(Stripped(seed))[1] # C9_Blocks(Stripped(seed))[2]
    /\ C9_Reordered(Stripped(seed), << 2, 1 >>) # Stripped(seed)
    /\ result.kind = "Ok"

---------------------------------------------------------------------------
(* C10                                                                     *)

\* Every intermediate value of the u8 arithmetic on the symbols a and b (rot13,
\* add, as_char) is representable in 8 bits.
C10_NoOverflow(a, b) ==
    /\ Fits8(a - 1) /\ Fits8((a - 1) + 13) /\ Fits8((((a - 1) + 13) % 26) + 1)
    /\ Fits8(a + b) /\ Fits8((a + b) - 1) /\ Fits8((((a + b) - 1) % 26) + 1)
    /\ Fits8((a - 1) + 65)

C10_Symbols(b) == {b[i] : i \in 1..Len(b)}

\* [C10] Whatever sequence of operations (the six primitives, an Action, block
\* addition) has been applied to a parsed block, every symbol is in [1,26], the
\* block has exactly 16 symbols, the u8 arithmetic on the symbols at hand cannot
\* overflow or underflow, and applying a valid Action did not fail.
C10_Invariant ==
    /\ \A k \in 1..Len(chars(text)) :
          IsUpper(chars(text)[k]) =>
              Fits8(chars(text)[k] - 65) /\ Fits8((chars(text)[k] - 65) + 1)
    /\ group # << >> =>
          /\ Len(group) = 16
          /\ \A i \in 1..16 : group[i] \in 1..26
          /\ \A a \in C10_Symbols(group) :
                \A b \in C10_Symbols(group) \cup UNION {C10_Symbols(r) : r \in AddOperands} :
                    C10_NoOverflow(a, b)
    /\ (op = "transform" /\ arg[1] \in 1..6) =>
          /\ parsed.kind = "Ok"
          /\ Len(parsed.val) = 16
          /\ group = parsed.val

\* Two operations have been applied, the second an Action on a block holding Z.
C10_Witness ==
    /\ steps = 2
    /\ op = "transform"
    /\ arg[1] \in 1..6
    /\ 26 \in C10_Symbols(prev)
    /\ parsed.kind = "Ok"

---------------------------------------------------------------------------
(* C11: rot13 is an involution.                                            *)

\* [C11] For every symbol x built by Alpha::new (value in [1,26]), x.rot13()
\* has the value ((x - 1 + 13) mod 26) + 1, it is again a symbol in [1,26],
\* and x.rot13().rot13() is x.
C11_Involution ==
    /\ sop = "rot13" =>
          /\ acc = ((x - 1 + 13) % 26) + 1
          /\ acc \in 1..26
          /\ acc # x
    /\ sop = "rot13_rot13" => acc = x

\* rot13 was applied twice to Z, whose first rotation wraps around to M.
C11_Witness ==
    /\ sop = "rot13_rot13"
    /\ x = 26
    /\ acc = 26

---------------------------------------------------------------------------
(* C12: no reduction hands an oversized chunk to from_str.                 *)

\* [C12] Whatever the seed and whichever entry point ran, every slice the
\* reduction handed to TpaGroup::from_str has between 1 and 16 bytes, hence
\* between 1 and 16 chars, from_str's length check passes on it, and the call
\* does not return the "Invalid length" error.
C12_ChunksFit ==
    pc = "done" =>
        /\ \A k \in 1..Len(slices) :
              /\ Len(slices[k]) \in 1..16
              /\ Len(chars(slices[k])) \in 1..16
              /\ ~InvalidLength(TpaGroup_from_str(slices[k]))
        /\ ~InvalidLength(result)

\* marvin_tpa_12 ran on a seed of 36 chars whose last char takes two bytes:
\* from_str got two slices of 16 chars and then one of 2 bytes and 1 char.
C12_Witness ==
    /\ pc = "done"
    /\ entry = "marvin_tpa_12"
    /\ Len(slices) = 3
    /\ Len(chars(slices[1])) = 16
    /\ Len(chars(slices[2])) = 16
    /\ Len(slices[3]) = 2 /\ Len(chars(slices[3])) = 1

---------------------------------------------------------------------------
(* C13: what the vowel test of swap_vowels reads.                          *)

\* The symbol the test transformed[i].is_vowel() reads at Rust index i of a
\* pass over the block b.
C13_Tested(b, i) == swap_vowels_at(b, i)[i + 1]

\* The block has two adjacent vowels after index 0: the second swap of the
\* pair works on a cell the first swap wrote.
C13_Cascade(b) == \E i \in 1..14 : is_vowel(b[i + 1]) /\ is_vowel(b[i + 2])

\* [C13 as written] On a pass over a block with two adjacent vowels, where a
\* swap of the pass works on what an earlier swap left, the vowel test at some
\* index i reads a symbol that an earlier swap of the pass put there and not
\* the input symbol at i.
C13_Original ==
    (op = "swap_vowels" /\ C13_Cascade(prev)) =>
        \E i \in 1..15 : C13_Tested(prev, i) # prev[i + 1]

\* The last Rust index at or before i that is 0 or holds no vowel.
RECURSIVE C13_Carried(_, _)
C13_Carried(b, i) ==
    IF i = 0 \/ ~is_vowel(b[i + 1]) THEN i ELSE C13_Carried(b, i - 1)

\* [C13] On every pass of swap_vowels the vowel test at Rust index i in 1..15
\* reads the input symbol at i: the earlier swaps of the pass wrote only cells
\* below i. What an earlier swap changes is the partner of the swap: a vowel
\* at i goes to i - 1, and the cell i - 1 of a non-vowel at i (and the last
\* cell) gets the symbol that stood before the run of vowels ending there.
C13_Amended ==
    op = "swap_vowels" =>
        /\ \A i \in 1..15 : C13_Tested(prev, i) = prev[i + 1]
        /\ group = swap_vowels_at(prev, 16)
        /\ \A i \in 1..15 :
              group[i] = IF is_vowel(prev[i + 1]) THEN prev[i + 1]
                         ELSE prev[C13_Carried(prev, i - 1) + 1]
        /\ group[16] = prev[C13_Carried(prev, 15) + 1]

\* A pass over a block with vowels at the Rust indices 4 and 5 after a
\* non-vowel at 3: the second swap moved on the symbol the first swap had put
\* at index 4, so the non-vowel ends at index 5.
C13_Witness ==
    /\ op = "swap_vowels"
    /\ ~is_vowel(prev[4]) /\ is_vowel(prev[5]) /\ is_vowel(prev[6])
    /\ swap_vowels_at(prev, 5)[5] = prev[4]
    /\ group[4] = prev[5] /\ group[5] = prev[6] /\ group[6] = prev[4]

---------------------------------------------------------------------------
(* C14: marvin_tpa folds Action A over every 16-char chunk of the seed.    *)

\* Chunk i of the stripped seed itself: its chars 16*i .. 16*i + 15.
C14_ChunkCount(st) == CeilDiv(Len(st), 16)
C14_Chunk(st, i) ==
    SubSeq(st, 16 * i + 1, IF 16 * i + 16 < Len(st) THEN 16 * i + 16 ELSE Len(st))

\* The block of a chunk of uppercase letters, padded from A, B, C, ..
C14_Padded(c) == [i \in 1..16 |-> IF i <= Len(c) THEN c[i] - 64 ELSE i - Len(c)]

\* Position j of the left-to-right Symbol.add fold of Action A applied to the
\* chunks 0..i.
RECURSIVE C14_FoldAt(_, _, _)
C14_FoldAt(st, i, j) ==
    IF i = 0 THEN C6_Action(1, C14_Padded(C14_Chunk(st, 0)))[j]
    ELSE Lib_add(C14_FoldAt(st, i - 1, j), C6_Action(1, C14_Padded(C14_Chunk(st, i)))[j])

C14_Expected(st) == [j \in 1..16 |-> 64 + C14_FoldAt(st, C14_ChunkCount(st) - 1, j)]

C14_Applies(st) == Len(st) >= 1 /\ AllUpper(st)

\* [C14] For every seed whose whitespace-stripped form is n >= 1 uppercase
\* letters, marvin_tpa returns the 16 letters of the left-to-right add fold of
\* Action A applied to every consecutive 16-char chunk of the stripped seed,
\* the last one padded: the seed it builds has n + ceil(n/16) chars, the
\* ceil(L/17) split of marvin_tpa_12 takes exactly the ceil(n/16) 'A's as the
\* preamble and the stripped seed as the body, from_str gets every chunk of
\* the stripped seed in order, and "ABCDEFGHIJKLMNOPQRSTUVWXYZ" gives
\* "TTTNANHHHCZCXTGT".
C14_ReduceWithImplicitPreamble ==
    DoneTpa =>
        LET st == Stripped(seed)
            syn == marvin_tpa_seed(seed)
            g == C14_ChunkCount(st)
        IN  /\ C14_Applies(st) =>
                  /\ result = Ok(C14_Expected(st))
                  /\ Len(syn) = Len(st) + g
                  /\ PreambleLen(syn) = g
                  /\ preamble_len(syn) = g
                  /\ PreambleOf(syn) = [i \in 1..g |-> 65]
                  /\ BodyOf(syn) = st
                  /\ slices = [i \in 1..g |-> C14_Chunk(st, i - 1)]
            /\ st = letters(26, 0) =>
                  result = Ok(Str(<< "T", "T", "T", "N", "A", "N", "H", "H",
                                     "H", "C", "Z", "C", "X", "T", "G", "T" >>))

\* marvin_tpa has reduced the 26-letter alphabet, with a whitespace char
\* inserted, through two chunks to its fingerprint.
C14_Witness ==
    /\ DoneTpa
    /\ edit.kind = "insert"
    /\ base = letters(26, 0)
    /\ Len(slices) = 2
    /\ Len(slices[2]) = 10
    /\ result = Ok(Str(<< "T", "T", "T", "N", "A", "N", "H", "H",
                          "H", "C", "Z", "C", "X", "T", "G", "T" >>))

---------------------------------------------------------------------------
(* C15: body chunks against preamble symbols in marvin_tpa_12.             *)

RECURSIVE C15_Concat(_)
C15_Concat(ss) == IF ss = << >> THEN << >> ELSE Head(ss) \o C15_Concat(Tail(ss))

\* The stripped seed is uppercase, has a lone preamble symbol at the end of
\* its preamble and a body, and the preamble symbols before the last one are
\* in A..F.
C15_LastUnpaired(st) ==
    /\ Len(st) % 17 = 1
    /\ Len(st) >= 18
    /\ AllUpper(st)
    /\ \A k \in 1..(PreambleLen(st) - 1) : st[k] \in 65..70

\* [C15] In marvin_tpa_12, for every seed whose stripped form has L >= 0
\* bytes, with p = ceil(L/17) the preamble length: the body has p chunks when
\* L mod 17 # 1 and p - 1 chunks when L mod 17 = 1, so the chunks never
\* outnumber the preamble symbols, the zip pairs every chunk, and p - chunks
\* is 0 or 1. A call that succeeds handed every chunk of the body to from_str,
\* and when one preamble symbol is left over it is the last one: the result
\* does not depend on it, whether or not it names an Action.
C15_ChunkCounts ==
    Done12 =>
        LET st == Stripped(seed)
            L == Len(st)
            p == CeilDiv(L, 17)
            chunks == Len(step_by_16(L - preamble_len(strip_whitespace(seed))))
        IN  /\ preamble_len(strip_whitespace(seed)) = p
            /\ chunks = (IF L % 17 = 1 THEN p - 1 ELSE p)
            /\ chunks = ChunkCount(st)
            /\ chunks <= p
            /\ p - chunks \in {0, 1}
            /\ pair_count(L - p, PreambleOf(st)) = chunks
            /\ Len(slices) <= chunks
            /\ result.kind = "Ok" =>
                  /\ Len(slices) = chunks
                  /\ C15_Concat(slices) = BodyOf(st)
            /\ C15_LastUnpaired(st) => result = Ok(C1_Expected(st))

\* marvin_tpa_12 succeeded on a seed of 18 letters whose second and last
\* preamble symbol was replaced by Z, which names no Action: the one chunk of
\* the body was paired with the first preamble symbol.
C15_Witness ==
    /\ Done12
    /\ Len(seed) = 18
    /\ edit = [kind |-> "replace", at |-> 2, ch |-> 90]
    /\ C15_LastUnpaired(Stripped(seed))
    /\ Len(slices) = 1
    /\ Len(slices[1]) = 16
    /\ result.kind = "Ok"

=============================================================================
